---------------------------- MODULE Spec2Model ----------------------------
(***************************************************************************)
(* Trailer-based container format of tutorial-maker (src-tauri/src/lib.rs).*)
(*                                                                         *)
(* A file is a sequence of bytes (integers 0..255).  The V1 writer appends *)
(* [payload][u64 LE length][MAGIC_BYTES]; the V2 writer appends            *)
(* [media blobs][project JSON][manifest JSON][u64 LE length]               *)
(* [MAGIC_BYTES_V2].  Readers walk the file back from its end.             *)
(***************************************************************************)
EXTENDS Integers, Sequences, FiniteSets, TLC

(***************************************************************************)
(* Markers (lib.rs 12, 14).                                                *)
(***************************************************************************)
\* b"TUTORIALMAKER_DATA_V1"
MAGIC_BYTES ==
    <<84, 85, 84, 79, 82, 73, 65, 76, 77, 65, 75, 69, 82, 95, 68, 65, 84, 65, 95, 86, 49>>

\* the V2 marker replaced by the V1 marker (both generations share one marker)
MAGIC_BYTES_V2_same ==
    MAGIC_BYTES

\* b"TUTORIALMAKER_DATA_V2"
MAGIC_BYTES_V2 ==
    <<84, 85, 84, 79, 82, 73, 65, 76, 77, 65, 75, 69, 82, 95, 68, 65, 84, 65, 95, 86, 50>>

(***************************************************************************)
(* Integers.  TLC integers are 32 bits wide, so a u64 is kept exactly      *)
(* below U64Big and saturates at U64Big, which is larger than every file   *)
(* size and offset in the model; the sign of `x as i64` is read from the   *)
(* top bit of the encoded bytes.                                           *)
(***************************************************************************)
U64Big == 2147483647

Byte == 0..255

\* Option::None of an Option<u64> field (a u64 is never negative)
None == -1

\* a length written as a u32: four bytes
to_le_bytes_u32(n) ==
    [i \in 1..4 |->
        IF i = 1 THEN n % 256
        ELSE IF i = 2 THEN (n \div 256) % 256
        ELSE IF i = 3 THEN (n \div 65536) % 256
        ELSE (n \div 16777216) % 256]

\* u64::to_le_bytes for n < 2^31
to_le_bytes(n) ==
    [i \in 1..8 |->
        IF i = 1 THEN n % 256
        ELSE IF i = 2 THEN (n \div 256) % 256
        ELSE IF i = 3 THEN (n \div 65536) % 256
        ELSE IF i = 4 THEN (n \div 16777216) % 256
        ELSE 0]

\* u64::from_le_bytes, saturating at U64Big
from_le_bytes(b) ==
    IF b[4] >= 128 \/ b[5] # 0 \/ b[6] # 0 \/ b[7] # 0 \/ b[8] # 0
    THEN U64Big
    ELSE b[1] + 256 * b[2] + 65536 * b[3] + 16777216 * b[4]

\* whether `u64::from_le_bytes(b) as i64` is negative
AsI64Negative(b) == b[8] >= 128

\* whether `-k - (u64::from_le_bytes(b) as i64)` is below i64::MIN, for
\* 0 < k < 256: the value is one of the k - 1 largest of an i64
BelowI64Min(b, k) ==
    /\ b[8] = 127
    /\ \A i \in 2..7 : b[i] = 255
    /\ b[1] >= 257 - k

(***************************************************************************)
(* Byte-range helpers.                                                     *)
(***************************************************************************)
\* the n bytes of f that start at 0-based position pos
Range(f, pos, n) == SubSeq(f, pos + 1, pos + n)

\* whether lit occurs in b at 1-based index p
Lit(b, p, lit) ==
    /\ p + Len(lit) - 1 <= Len(b)
    /\ SubSeq(b, p, p + Len(lit) - 1) = lit

RECURSIVE Concat(_)
\* the concatenation of a sequence of byte sequences
Concat(ss) == IF ss = <<>> THEN <<>> ELSE Head(ss) \o Concat(Tail(ss))

(***************************************************************************)
(* UTF-8: String::from_utf8 (lib.rs 306, 876) and the String arguments.    *)
(***************************************************************************)
IsCont(b, p) == p <= Len(b) /\ b[p] >= 128 /\ b[p] <= 191

RECURSIVE Utf8From(_, _)
Utf8From(b, p) ==
    IF p > Len(b) THEN TRUE
    ELSE LET c == b[p] IN
      IF c < 128 THEN Utf8From(b, p + 1)
      ELSE IF c >= 194 /\ c <= 223
        THEN IsCont(b, p + 1) /\ Utf8From(b, p + 2)
      ELSE IF c >= 224 /\ c <= 239
        THEN /\ IsCont(b, p + 1) /\ IsCont(b, p + 2)
             /\ (c = 224 => b[p + 1] >= 160)
             /\ (c = 237 => b[p + 1] <= 159)
             /\ Utf8From(b, p + 3)
      ELSE IF c >= 240 /\ c <= 244
        THEN /\ IsCont(b, p + 1) /\ IsCont(b, p + 2) /\ IsCont(b, p + 3)
             /\ (c = 240 => b[p + 1] >= 144)
             /\ (c = 244 => b[p + 1] <= 143)
             /\ Utf8From(b, p + 4)
      ELSE FALSE

\* String::from_utf8(b).is_ok()
Utf8Valid(b) == Utf8From(b, 1)

(***************************************************************************)
(* serde_json::to_string of BuildManifest (lib.rs 19-36, 797, 918).        *)
(***************************************************************************)
\* {"project_json_offset":
KeyProjectJsonOffset ==
    <<123, 34, 112, 114, 111, 106, 101, 99, 116, 95, 106, 115, 111, 110, 95, 111, 102, 102, 115, 101, 116, 34, 58>>
\* ,"project_json_size":
KeyProjectJsonSize ==
    <<44, 34, 112, 114, 111, 106, 101, 99, 116, 95, 106, 115, 111, 110, 95, 115, 105, 122, 101, 34, 58>>
\* ,"media":
KeyMedia ==
    <<44, 34, 109, 101, 100, 105, 97, 34, 58>>
\* ,"app_icon_offset":
KeyAppIconOffset ==
    <<44, 34, 97, 112, 112, 95, 105, 99, 111, 110, 95, 111, 102, 102, 115, 101, 116, 34, 58>>
\* ,"app_icon_size":
KeyAppIconSize ==
    <<44, 34, 97, 112, 112, 95, 105, 99, 111, 110, 95, 115, 105, 122, 101, 34, 58>>
\* {"id":
KeyId ==
    <<123, 34, 105, 100, 34, 58>>
\* ,"name":
KeyName ==
    <<44, 34, 110, 97, 109, 101, 34, 58>>
\* ,"mime_type":
KeyMimeType ==
    <<44, 34, 109, 105, 109, 101, 95, 116, 121, 112, 101, 34, 58>>
\* ,"offset":
KeyOffset ==
    <<44, 34, 111, 102, 102, 115, 101, 116, 34, 58>>
\* ,"size":
KeySize ==
    <<44, 34, 115, 105, 122, 101, 34, 58>>
\* null
JsonNull ==
    <<110, 117, 108, 108>>

\* lower-case hexadecimal digit of d in 0..15
HexDigit(d) == IF d < 10 THEN 48 + d ELSE 87 + d

RECURSIVE ToDec(_)
\* the decimal digits of n >= 0, as serde_json (itoa) writes an integer
ToDec(n) == IF n < 10 THEN <<48 + n>> ELSE ToDec(n \div 10) \o <<48 + (n % 10)>>

\* a character written as it is, escaped or not
EscapeChar_raw(c) == <<c>>

\* one character of a JSON string as serde_json escapes it
EscapeChar(c) ==
    IF c = 34 THEN <<92, 34>>
    ELSE IF c = 92 THEN <<92, 92>>
    ELSE IF c = 8 THEN <<92, 98>>
    ELSE IF c = 9 THEN <<92, 116>>
    ELSE IF c = 10 THEN <<92, 110>>
    ELSE IF c = 12 THEN <<92, 102>>
    ELSE IF c = 13 THEN <<92, 114>>
    ELSE IF c < 32 THEN <<92, 117, 48, 48, HexDigit(c \div 16), HexDigit(c % 16)>>
    ELSE <<c>>

\* a String serialized as a JSON string
JsonString(s) ==
    <<34>> \o Concat([i \in 1..Len(s) |-> EscapeChar(s[i])]) \o <<34>>

\* an Option<u64> serialized
JsonOption(v) == IF v = None THEN JsonNull ELSE ToDec(v)

\* a MediaManifestEntry serialized, fields in declaration order
SerEntry(m) ==
    KeyId \o JsonString(m.id) \o KeyName \o JsonString(m.name)
      \o KeyMimeType \o JsonString(m.mime_type)
      \o KeyOffset \o ToDec(m.offset) \o KeySize \o ToDec(m.size) \o <<125>>

\* a Vec<MediaManifestEntry> serialized: [e1,e2,...]
SerMedia(media) ==
    <<91>>
      \o Concat([i \in 1..Len(media) |->
                  (IF i = 1 THEN <<>> ELSE <<44>>) \o SerEntry(media[i])])
      \o <<93>>

\* a BuildManifest serialized, fields in declaration order
SerManifest(m) ==
    KeyProjectJsonOffset \o ToDec(m.project_json_offset)
      \o KeyProjectJsonSize \o ToDec(m.project_json_size)
      \o KeyMedia \o SerMedia(m.media)
      \o KeyAppIconOffset \o JsonOption(m.app_icon_offset)
      \o KeyAppIconSize \o JsonOption(m.app_icon_size) \o <<125>>


(***************************************************************************)
(* serde_json::from_slice::<BuildManifest> (lib.rs 852).  The parser       *)
(* accepts the compact form serde_json::to_string writes: keys in          *)
(* declaration order and no whitespace.  Every byte range the model hands  *)
(* to it is either such a text or not a JSON document at all.  A parse     *)
(* result is [ok, val, pos]: pos is the 1-based index after the value.     *)
(***************************************************************************)
PFail == [ok |-> FALSE, val |-> <<>>, pos |-> 0]

POk(v, p) == [ok |-> TRUE, val |-> v, pos |-> p]

IsDigit(b, p) == p <= Len(b) /\ b[p] >= 48 /\ b[p] <= 57

\* the value of a hexadecimal digit, -1 for any other byte
HexVal(c) ==
    IF c >= 48 /\ c <= 57 THEN c - 48
    ELSE IF c >= 97 /\ c <= 102 THEN c - 87
    ELSE IF c >= 65 /\ c <= 70 THEN c - 55
    ELSE -1

\* the UTF-8 encoding of a code point of the basic plane; <<>> for a surrogate
EncodeUtf8(cp) ==
    IF cp < 128 THEN <<cp>>
    ELSE IF cp < 2048 THEN <<192 + (cp \div 64), 128 + (cp % 64)>>
    ELSE IF cp >= 55296 /\ cp <= 57343 THEN <<>>
    ELSE <<224 + (cp \div 4096), 128 + ((cp \div 64) % 64), 128 + (cp % 64)>>

\* the bytes an escape \e stands for; <<>> when \e is no simple escape
Unescape(e) ==
    IF e = 34 \/ e = 92 \/ e = 47 THEN <<e>>
    ELSE IF e = 98 THEN <<8>>
    ELSE IF e = 102 THEN <<12>>
    ELSE IF e = 110 THEN <<10>>
    ELSE IF e = 114 THEN <<13>>
    ELSE IF e = 116 THEN <<9>>
    ELSE <<>>

RECURSIVE ParseStrBody(_, _, _)
\* the characters of a JSON string up to its closing quote
ParseStrBody(b, p, acc) ==
    IF p > Len(b) THEN PFail
    ELSE LET c == b[p] IN
      IF c = 34 THEN (IF Utf8Valid(acc) THEN POk(acc, p + 1) ELSE PFail)
      ELSE IF c < 32 THEN PFail
      ELSE IF c # 92 THEN ParseStrBody(b, p + 1, Append(acc, c))
      ELSE IF p + 1 > Len(b) THEN PFail
      ELSE IF b[p + 1] = 117
        THEN IF p + 5 > Len(b) THEN PFail
             ELSE LET h1 == HexVal(b[p + 2])
                      h2 == HexVal(b[p + 3])
                      h3 == HexVal(b[p + 4])
                      h4 == HexVal(b[p + 5])
                      u  == EncodeUtf8(h1 * 4096 + h2 * 256 + h3 * 16 + h4)
                  IN IF h1 < 0 \/ h2 < 0 \/ h3 < 0 \/ h4 < 0 THEN PFail
                     ELSE IF u = <<>> THEN PFail
                     ELSE ParseStrBody(b, p + 6, acc \o u)
      ELSE LET u == Unescape(b[p + 1]) IN
             IF u = <<>> THEN PFail ELSE ParseStrBody(b, p + 2, acc \o u)

\* a JSON string deserialized into a String
ParseString(b, p) ==
    IF p <= Len(b) /\ b[p] = 34 THEN ParseStrBody(b, p + 1, <<>>) ELSE PFail

RECURSIVE ParseDigits(_, _, _)
\* the digits of a number, saturating at U64Big
ParseDigits(b, p, acc) ==
    IF ~IsDigit(b, p) THEN POk(acc, p)
    ELSE LET d == b[p] - 48 IN
      ParseDigits(b, p + 1,
                  IF acc > (U64Big - d) \div 10 THEN U64Big ELSE acc * 10 + d)

\* whether the number read up to p goes on as a fraction or an exponent
IsFloatTail(b, p) == p <= Len(b) /\ (b[p] = 46 \/ b[p] = 101 \/ b[p] = 69)

\* a JSON number deserialized into a u64
ParseU64(b, p) ==
    IF ~IsDigit(b, p) THEN PFail
    ELSE IF b[p] = 48
      THEN (IF IsDigit(b, p + 1) \/ IsFloatTail(b, p + 1) THEN PFail ELSE POk(0, p + 1))
    ELSE LET r == ParseDigits(b, p, 0) IN
           IF IsFloatTail(b, r.pos) THEN PFail ELSE r

\* null or a number deserialized into an Option<u64>
ParseOption(b, p) ==
    IF Lit(b, p, JsonNull) THEN POk(None, p + Len(JsonNull)) ELSE ParseU64(b, p)

\* the parse r of a record so far, with the value v of its next field added
Push(r, v) == IF v.ok THEN POk(Append(r.val, v.val), v.pos) ELSE PFail

\* the next field of a MediaManifestEntry: its key, then a string or a number
EntryField(b, r, key, is_string) ==
    IF r.ok /\ Lit(b, r.pos, key)
    THEN Push(r, IF is_string THEN ParseString(b, r.pos + Len(key))
                              ELSE ParseU64(b, r.pos + Len(key)))
    ELSE PFail

\* the record of the five fields parsed, once its closing brace is read
EntryDone(b, r) ==
    IF r.ok /\ Lit(b, r.pos, <<125>>)
    THEN POk([id |-> r.val[1], name |-> r.val[2], mime_type |-> r.val[3],
              offset |-> r.val[4], size |-> r.val[5]], r.pos + 1)
    ELSE PFail

\* a JSON object deserialized into a MediaManifestEntry
ParseEntry(b, p) ==
    EntryDone(b,
      EntryField(b,
        EntryField(b,
          EntryField(b,
            EntryField(b,
              EntryField(b, POk(<<>>, p), KeyId, TRUE),
              KeyName, TRUE),
            KeyMimeType, TRUE),
          KeyOffset, FALSE),
        KeySize, FALSE))

RECURSIVE ParseEntries(_, _, _)
RECURSIVE EntriesAfter(_, _, _)
\* the elements of a non-empty JSON array, up to its closing bracket
ParseEntries(b, p, acc) == EntriesAfter(b, acc, ParseEntry(b, p))

\* what follows the element e: the end of the array, or a comma and more
EntriesAfter(b, acc, e) ==
    IF ~e.ok THEN PFail
    ELSE IF Lit(b, e.pos, <<93>>) THEN POk(Append(acc, e.val), e.pos + 1)
    ELSE IF Lit(b, e.pos, <<44>>) THEN ParseEntries(b, e.pos + 1, Append(acc, e.val))
    ELSE PFail

\* a JSON array deserialized into a Vec<MediaManifestEntry>
ParseMedia(b, p) ==
    IF ~Lit(b, p, <<91>>) THEN PFail
    ELSE IF Lit(b, p + 1, <<93>>) THEN POk(<<>>, p + 2)
    ELSE ParseEntries(b, p + 1, <<>>)

\* the next field of a BuildManifest: its key, then a value of the kind
ManifestField(b, r, key, kind) ==
    IF r.ok /\ Lit(b, r.pos, key)
    THEN Push(r, IF kind = "u64" THEN ParseU64(b, r.pos + Len(key))
                 ELSE IF kind = "media" THEN ParseMedia(b, r.pos + Len(key))
                 ELSE ParseOption(b, r.pos + Len(key)))
    ELSE PFail

\* the record of the five fields parsed, once its closing brace ends the text
ManifestDone(b, r) ==
    IF r.ok /\ Lit(b, r.pos, <<125>>) /\ r.pos = Len(b)
    THEN POk([project_json_offset |-> r.val[1], project_json_size |-> r.val[2],
              media |-> r.val[3], app_icon_offset |-> r.val[4],
              app_icon_size |-> r.val[5]], r.pos + 1)
    ELSE PFail

\* serde_json::from_slice::<BuildManifest>(b): [ok, val, pos]
ParseManifest(b) ==
    ManifestDone(b,
      ManifestField(b,
        ManifestField(b,
          ManifestField(b,
            ManifestField(b,
              ManifestField(b, POk(<<>>, 1), KeyProjectJsonOffset, "u64"),
              KeyProjectJsonSize, "u64"),
            KeyMedia, "media"),
          KeyAppIconOffset, "option"),
        KeyAppIconSize, "option"))

(***************************************************************************)
(* Results.  Every error of the code is a String; err names the place that *)
(* made it.  A panic is not a returned value: it unwinds through `?` and   *)
(* `match`, so it is kept apart from Err.                                  *)
(*   "seek"             파일 탐색 실패            (86, 98, 109, 824, 836, 846, 870, 902) *)
(*   "no_v1_data"       내장된 프로젝트 데이터를 찾을 수 없습니다.  (93)     *)
(*   "not_v2"           V2 데이터 포맷이 아닙니다.                  (831)    *)
(*   "parse_manifest"   매니페스트 파싱 실패                        (853)    *)
(*   "read_project"     프로젝트 데이터 읽기 실패                   (874)    *)
(*   "decode_project"   프로젝트 데이터 디코딩 실패                 (307, 877) *)
(*   "no_project_data"  프로젝트 데이터를 찾을 수 없습니다.         (317)    *)
(*   "read_sibling"     fs::read_to_string error                   (320)    *)
(*   "media_not_found"  미디어를 찾을 수 없습니다                   (896)    *)
(*   "read_media"       미디어 데이터 읽기 실패                     (906)    *)
(***************************************************************************)
Ok(v) == [ok |-> TRUE, val |-> v, err |-> ""]

Err(e) == [ok |-> FALSE, val |-> <<>>, err |-> e]

Panic(e) == [ok |-> FALSE, val |-> <<>>, err |-> "panic"]

IsPanic(r) == ~r.ok /\ r.err = "panic"

\* a file that does not exist / a file with the given content
NoFile == [exists |-> FALSE, content |-> <<>>]

FileOf(bytes) == [exists |-> TRUE, content |-> bytes]

\* from_le_bytes of the low seven bytes (the value without its top byte)
from_le_low(b) == from_le_bytes([b EXCEPT ![8] = 0])

(***************************************************************************)
(* V1 reader: read_data_from_exe (lib.rs 75-116).  overflow_checks is the  *)
(* build profile: with it the u64 subtraction of line 107 panics on        *)
(* underflow, without it the subtraction wraps.                            *)
(***************************************************************************)
\* a reader that takes a length of 0 for a file without data
read_data_from_exe_nonempty(f, overflow_checks) ==
    IF Len(f) < Len(MAGIC_BYTES) + 8 THEN Err("seek")
    ELSE IF Range(f, Len(f) - Len(MAGIC_BYTES), Len(MAGIC_BYTES)) # MAGIC_BYTES
      THEN Err("no_v1_data")
    ELSE IF from_le_bytes(Range(f, Len(f) - Len(MAGIC_BYTES) - 8, 8)) = 0
      THEN Err("no_v1_data")
    ELSE IF from_le_bytes(Range(f, Len(f) - Len(MAGIC_BYTES) - 8, 8))
              > Len(f) - Len(MAGIC_BYTES) - 8
      THEN Err("seek")
    ELSE Ok(Range(f, Len(f) - Len(MAGIC_BYTES) - 8
                       - from_le_bytes(Range(f, Len(f) - Len(MAGIC_BYTES) - 8, 8)),
                  from_le_bytes(Range(f, Len(f) - Len(MAGIC_BYTES) - 8, 8))))

read_data_from_exe(f, overflow_checks) ==
    LET file_size == Len(f)
        magic_len == Len(MAGIC_BYTES)
    IN
    IF file_size < magic_len THEN Err("seek")
    ELSE IF Range(f, file_size - magic_len, magic_len) # MAGIC_BYTES
      THEN Err("no_v1_data")
    ELSE IF file_size < magic_len + 8 THEN Err("seek")
    ELSE
      LET len_buf  == Range(f, file_size - magic_len - 8, 8)
          data_len == from_le_bytes(len_buf)
          room     == file_size - magic_len - 8
      IN
      IF data_len <= room
      THEN Ok(Range(f, room - data_len, data_len))
      ELSE IF overflow_checks THEN Panic("attempt to subtract with overflow")
      \* wrapped: data_start = 2^64 - (data_len - room).  Seek::Start takes it
      \* as an i64: negative (an error) unless data_len - room > 2^63, and then
      \* vec![0u8; data_len] is larger than isize::MAX
      ELSE IF len_buf[8] > 128 \/ (len_buf[8] = 128 /\ from_le_low(len_buf) > room)
        THEN Panic("capacity overflow")
      ELSE Err("seek")

(***************************************************************************)
(* V2 reader: read_manifest_from_exe (lib.rs 817-856).  With               *)
(* overflow_checks the i64 subtraction of line 845 panics on overflow,     *)
(* without it the subtraction wraps.                                       *)
(***************************************************************************)
\* lines 852-855: the manifest of the parse m, or the parse error
Parsed(m) == IF m.ok THEN Ok(m.val) ELSE Err("parse_manifest")

read_manifest_from_exe(f, overflow_checks) ==
    LET file_size == Len(f)
        magic_len == Len(MAGIC_BYTES_V2)
    IN
    IF file_size < magic_len THEN Err("seek")
    ELSE IF Range(f, file_size - magic_len, magic_len) # MAGIC_BYTES_V2
      THEN Err("not_v2")
    ELSE IF file_size < magic_len + 8 THEN Err("seek")
    ELSE
      LET len_buf       == Range(f, file_size - magic_len - 8, 8)
          manifest_size == from_le_bytes(len_buf)
          room          == file_size - magic_len - 8
      IN
      IF AsI64Negative(len_buf)
      \* the offset -magic_len - 8 - (manifest_size as i64) is room-relative
      \* positive: the seek passes the end of the file unless the position
      \* exceeds i64::MAX; vec![0u8; manifest_size] is larger than isize::MAX
      THEN IF len_buf[8] = 128 /\ from_le_low(len_buf) < room + 1
           THEN Err("seek")
           ELSE Panic("capacity overflow")
      \* -magic_len - 8 - (manifest_size as i64) below i64::MIN: wrapped, it
      \* is an offset that takes the position past i64::MAX
      ELSE IF BelowI64Min(len_buf, magic_len + 8)
        THEN IF overflow_checks THEN Panic("attempt to subtract with overflow")
             ELSE Err("seek")
      ELSE IF manifest_size > room THEN Err("seek")
      ELSE Parsed(ParseManifest(Range(f, room - manifest_size, manifest_size)))

\* seek(SeekFrom::Start(offset)) then read_exact of size bytes, as lines
\* 869-874 and 901-906 do; what is the name of the read's error
ReadAt(f, offset, size, what) ==
    IF size = 0 THEN Ok(<<>>)
    ELSE IF offset >= Len(f) \/ size > Len(f) - offset THEN Err(what)
    ELSE Ok(Range(f, offset, size))

(***************************************************************************)
(* Dispatcher: read_project_file (lib.rs 299-323) and read_project_file_v2 *)
(* (lib.rs 860-884).  sibling is the project.json next to the executable.  *)
(***************************************************************************)
\* String::from_utf8 of the bytes read (lines 306-307, 876-877)
Decode(buf) ==
    IF ~buf.ok THEN buf
    ELSE IF Utf8Valid(buf.val) THEN Ok(buf.val)
    ELSE Err("decode_project")

\* lines 309-321: project.json next to the executable
LooseFile(sibling) ==
    IF ~sibling.exists THEN Err("no_project_data")
    ELSE IF Utf8Valid(sibling.content) THEN Ok(sibling.content)
    ELSE Err("read_sibling")

\* a match that prefers project.json next to the executable when it exists
MatchData_loose_first(r, sibling) ==
    IF sibling.exists THEN LooseFile(sibling)
    ELSE IF IsPanic(r) THEN r
    ELSE IF r.ok THEN Decode(r)
    ELSE LooseFile(sibling)

\* lines 304-322: the match on the result r of read_data_from_exe
MatchData(r, sibling) ==
    IF IsPanic(r) THEN r
    ELSE IF r.ok THEN Decode(r)
    ELSE LooseFile(sibling)

read_project_file(f, sibling, overflow_checks) ==
    MatchData(read_data_from_exe(f, overflow_checks), sibling)

\* a match that returns every error of read_manifest_from_exe as it is
MatchManifest_strict(r, f, sibling, overflow_checks) ==
    IF r.ok
    THEN Decode(ReadAt(f, r.val.project_json_offset, r.val.project_json_size,
                       "read_project"))
    ELSE r

\* lines 864-883: the match on the result r of read_manifest_from_exe
MatchManifest(r, f, sibling, overflow_checks) ==
    IF IsPanic(r) THEN r
    ELSE IF r.ok
      THEN Decode(ReadAt(f, r.val.project_json_offset, r.val.project_json_size,
                         "read_project"))
    ELSE read_project_file(f, sibling, overflow_checks)

read_project_file_v2(f, sibling, overflow_checks) ==
    MatchManifest(read_manifest_from_exe(f, overflow_checks), f, sibling,
                  overflow_checks)

(***************************************************************************)
(* Asset reads: read_embedded_media (lib.rs 888-909) and                   *)
(* get_media_manifest (lib.rs 913-920).                                    *)
(***************************************************************************)
\* a search that falls back to the first entry
FindMedia_or_first(media, media_id) ==
    LET hits == {i \in 1..Len(media) : media[i].id = media_id}
    IN IF hits = {} THEN (IF media = <<>> THEN 0 ELSE 1)
       ELSE CHOOSE i \in hits : \A j \in hits : i <= j

\* a search that keeps the last entry with the id
FindMedia_last(media, media_id) ==
    LET hits == {i \in 1..Len(media) : media[i].id = media_id}
    IN IF hits = {} THEN 0 ELSE CHOOSE i \in hits : \A j \in hits : i >= j

\* manifest.media.iter().find(|m| m.id == media_id): the index, 0 for None
FindMedia(media, media_id) ==
    LET hits == {i \in 1..Len(media) : media[i].id = media_id}
    IN IF hits = {} THEN 0 ELSE CHOOSE i \in hits : \A j \in hits : i <= j

\* lines 894-908: the bytes of entry i of the manifest, None when i = 0
ReadEntry(f, media, i) ==
    IF i = 0 THEN Err("media_not_found")
    ELSE ReadAt(f, media[i].offset, media[i].size, "read_media")

\* lines 891-908 on the result r of read_manifest_from_exe
LookUp(r, f, media_id) ==
    IF ~r.ok THEN r ELSE ReadEntry(f, r.val.media, FindMedia(r.val.media, media_id))

read_embedded_media(f, media_id, overflow_checks) ==
    LookUp(read_manifest_from_exe(f, overflow_checks), f, media_id)

\* lines 916-919 on the result r of read_manifest_from_exe
ListMedia(r) == IF ~r.ok THEN r ELSE Ok(SerMedia(r.val.media))

get_media_manifest(f, overflow_checks) ==
    ListMedia(read_manifest_from_exe(f, overflow_checks))

(***************************************************************************)
(* Inputs: host executables, project JSON strings, V1 payloads and the     *)
(* media descriptors the front end passes, with the source files on disk.  *)
(***************************************************************************)
\* the longest media list a build passes
MaxMedia == 2

\* the most bytes a completed file loses at its end
MaxCut == 2

\* "MZ" 0x90: the start of an executable
HostPlain == <<77, 90, 144>>

\* a file whose tail is the V2 marker over a one-byte manifest "x"
HostBadManifest == <<120>> \o to_le_bytes(1) \o MAGIC_BYTES_V2

\* a file whose tail is the V2 marker over a manifest length of 200
HostBadLength == to_le_bytes(200) \o MAGIC_BYTES_V2

Hosts == {<<>>, HostPlain, HostBadManifest, HostBadLength}

\* {"v":1} and the two-byte character U+00E9
ProjectJsons == {<<123, 34, 118, 34, 58, 49, 125>>, <<195, 169>>}

\* a JSON text, the empty payload, a byte that is not UTF-8
Payloads == {<<123, 34, 118, 34, 58, 49, 125>>, <<>>, <<255>>}

\* the content of project.json next to the executable, when it exists: {}
SiblingJson == <<123, 125>>

\* the source files on disk: path -> file
Source(file_path) ==
    IF file_path = "abc.png" THEN FileOf(<<65, 66, 67>>)
    ELSE IF file_path = "tail.bin" THEN FileOf(to_le_bytes(0) \o MAGIC_BYTES)
    ELSE IF file_path = "empty.bin" THEN FileOf(<<>>)
    ELSE NoFile

\* a check that takes every path to exist
exists_always(file_path) == TRUE

\* media_path.exists() (lib.rs 767)
exists(file_path) == Source(file_path).exists

\* MediaBuildInfo values (lib.rs 39-47): ids a, b" (with a quote), a with a
\* source that is missing, and a again with an empty source
MediaItems ==
    { [id |-> <<97>>, name |-> <<110>>, mime_type |-> <<116>>, file_path |-> "abc.png"],
      [id |-> <<98, 34>>, name |-> <<110>>, mime_type |-> <<116>>, file_path |-> "tail.bin"],
      [id |-> <<97>>, name |-> <<110>>, mime_type |-> <<116>>, file_path |-> "gone.png"],
      [id |-> <<97>>, name |-> <<100>>, mime_type |-> <<116>>, file_path |-> "empty.bin"] }

\* the media lists: up to MaxMedia descriptors, none of them twice
MediaLists ==
    UNION { { s \in [1..n -> MediaItems] : \A i, j \in 1..n : i # j => s[i] # s[j] }
            : n \in 0..MaxMedia }

\* the ids a reader asks for: a, b" and zz (in no list)
MediaIds == {<<97>>, <<98, 34>>, <<122, 122>>}

Readers == {1, 2}

(***************************************************************************)
(* State.                                                                  *)
(***************************************************************************)
VARIABLES
    file,             \* the bytes of the executable
    sibling,          \* project.json next to the executable
    overflow_checks,  \* the build profile of the reader
    pc,               \* the writer's position
    w,                \* the writer's arguments and locals
    truncated,        \* whether the completed file lost its last bytes
    rd,               \* each reader's last call on the file as it is now:
                      \* [op, arg, res, after_miss]
    embeds            \* the completed embeds the file carried when the
                      \* writer was last called

vars == <<file, sibling, overflow_checks, pc, w, truncated, rd, embeds>>

\* BuildManifest { 0, 0, Vec::new(), None, None } (lib.rs 754-760)
EmptyManifest ==
    [project_json_offset |-> 0, project_json_size |-> 0, media |-> <<>>,
     app_icon_offset |-> None, app_icon_size |-> None]

NoCall == [op |-> "none", arg |-> <<>>, res |-> Ok(<<>>), after_miss |-> FALSE]

NoWriter ==
    [fn |-> "none", before |-> <<>>, project_json |-> <<>>, media_files |-> <<>>,
     i |-> 1, data_start |-> 0, current_offset |-> 0, manifest |-> EmptyManifest,
     manifest_json |-> <<>>, data |-> <<>>]

\* The build profile is the release one: no file that Spec or SpecReaders
\* reach carries a footer whose length goes past the file, and both
\* profiles read the others alike; SpecFooters runs both profiles.
Init ==
    /\ file \in Hosts
    /\ sibling \in {NoFile, FileOf(SiblingJson)}
    /\ overflow_checks = FALSE
    /\ pc = "idle"
    /\ w = NoWriter
    /\ truncated = FALSE
    /\ rd = [r \in Readers |-> NoCall]
    /\ embeds = 0

(***************************************************************************)
(* V2 writer: append_binary_data_v2 (lib.rs 740-814), one step for each    *)
(* write_all.  w.before is the file as it was opened (history).            *)
(***************************************************************************)
\* a writer that takes the data to start where the plain executable ends
StartV2_at_host(project_json, media_files) ==
    /\ pc = "idle"
    /\ w' = [NoWriter EXCEPT !.fn = "v2", !.before = file,
                             !.project_json = project_json,
                             !.media_files = media_files,
                             !.data_start = Len(HostPlain),
                             !.current_offset = Len(HostPlain)]
    /\ pc' = IF media_files = <<>> THEN "v2_project" ELSE "v2_media"
    /\ rd' = [r \in Readers |-> NoCall]
    /\ UNCHANGED <<file, sibling, overflow_checks, truncated, embeds>>

\* lines 745-762: open for append, seek to the end, the empty manifest
StartV2(project_json, media_files) ==
    /\ pc = "idle"
    /\ w' = [NoWriter EXCEPT !.fn = "v2", !.before = file,
                             !.project_json = project_json,
                             !.media_files = media_files,
                             !.data_start = Len(file),
                             !.current_offset = Len(file)]
    /\ pc' = IF media_files = <<>> THEN "v2_project" ELSE "v2_media"
    /\ rd' = [r \in Readers |-> NoCall]
    /\ UNCHANGED <<file, sibling, overflow_checks, truncated, embeds>>

\* an offset that stays where it is
Advance_stuck(current_offset, media_size) == current_offset

\* the offset after a blob of media_size bytes written at current_offset
Advance(current_offset, media_size) == current_offset + media_size

\* the entry pushed for media_info (lines 776-782)
Entry(media_info, current_offset, media_size) ==
    [id |-> media_info.id, name |-> media_info.name,
     mime_type |-> media_info.mime_type,
     offset |-> current_offset, size |-> media_size]

\* the bytes the next write_all of the writer writes
NextWrite ==
    IF pc = "v2_media"
      THEN LET media_path == w.media_files[w.i].file_path
           IN IF exists(media_path) THEN Source(media_path).content ELSE <<>>
    ELSE IF pc = "v2_project" THEN w.project_json
    ELSE IF pc = "v2_manifest" THEN SerManifest(w.manifest)
    ELSE IF pc = "v2_len" THEN to_le_bytes(Len(w.manifest_json))
    ELSE IF pc = "v2_magic" THEN MAGIC_BYTES_V2
    ELSE IF pc = "v1_data" THEN w.data
    ELSE IF pc = "v1_len" THEN to_le_bytes(Len(w.data))
    ELSE IF pc = "v1_magic" THEN MAGIC_BYTES
    ELSE <<>>

\* lines 765-786: one iteration of the loop over media_files
V2Media ==
    /\ pc = "v2_media"
    /\ LET media_info == w.media_files[w.i]
           src        == Source(media_info.file_path)
           media_size == Len(src.content)
       IN /\ file' = file \o NextWrite
          /\ w' = IF exists(media_info.file_path)
                  THEN [w EXCEPT
                          !.i = w.i + 1,
                          !.manifest.media =
                             Append(w.manifest.media,
                                    Entry(media_info, w.current_offset, media_size)),
                          !.current_offset = Advance(w.current_offset, media_size)]
                  ELSE [w EXCEPT !.i = w.i + 1]
    /\ pc' = IF w.i = Len(w.media_files) THEN "v2_project" ELSE "v2_media"
    /\ UNCHANGED <<sibling, overflow_checks, truncated, rd, embeds>>

\* lines 789-794: the project JSON
V2Project ==
    /\ pc = "v2_project"
    /\ file' = file \o NextWrite
    /\ w' = [w EXCEPT !.manifest.project_json_offset = w.current_offset,
                      !.manifest.project_json_size = Len(w.project_json)]
    /\ pc' = "v2_manifest"
    /\ UNCHANGED <<sibling, overflow_checks, truncated, rd, embeds>>

\* lines 797-803: the manifest JSON
V2Manifest ==
    /\ pc = "v2_manifest"
    /\ file' = file \o NextWrite
    /\ w' = [w EXCEPT !.manifest_json = SerManifest(w.manifest)]
    /\ pc' = "v2_len"
    /\ UNCHANGED <<sibling, overflow_checks, truncated, rd, embeds>>

\* lines 806-807: the manifest length
V2Len ==
    /\ pc = "v2_len"
    /\ file' = file \o NextWrite
    /\ pc' = "v2_magic"
    /\ UNCHANGED <<sibling, overflow_checks, w, truncated, rd, embeds>>

\* lines 810-813: the marker, and Ok(())
V2Magic ==
    /\ pc = "v2_magic"
    /\ file' = file \o NextWrite
    /\ pc' = "done"
    /\ UNCHANGED <<sibling, overflow_checks, w, truncated, rd, embeds>>

(***************************************************************************)
(* V1 writer: append_data_to_exe (lib.rs 50-72).                           *)
(***************************************************************************)
StartV1(data) ==
    /\ pc = "idle"
    /\ w' = [NoWriter EXCEPT !.fn = "v1", !.before = file, !.data = data,
                             !.data_start = Len(file)]
    /\ pc' = "v1_data"
    /\ rd' = [r \in Readers |-> NoCall]
    /\ UNCHANGED <<file, sibling, overflow_checks, truncated, embeds>>

V1Data ==
    /\ pc = "v1_data"
    /\ file' = file \o NextWrite
    /\ pc' = "v1_len"
    /\ UNCHANGED <<sibling, overflow_checks, w, truncated, rd, embeds>>

V1Len ==
    /\ pc = "v1_len"
    /\ file' = file \o NextWrite
    /\ pc' = "v1_magic"
    /\ UNCHANGED <<sibling, overflow_checks, w, truncated, rd, embeds>>

V1Magic ==
    /\ pc = "v1_magic"
    /\ file' = file \o NextWrite
    /\ pc' = "done"
    /\ UNCHANGED <<sibling, overflow_checks, w, truncated, rd, embeds>>

(***************************************************************************)
(* Environment: the writer is killed, or its disk fills, after k bytes of  *)
(* the pending write_all; a completed file loses its last bytes, fewer     *)
(* than the marker has.                                                    *)
(***************************************************************************)
Writing ==
    pc \in {"v2_media", "v2_project", "v2_manifest", "v2_len", "v2_magic",
            "v1_data", "v1_len", "v1_magic"}

Interrupt ==
    /\ Writing
    /\ \E k \in 0..(Len(NextWrite) - 1) : file' = file \o SubSeq(NextWrite, 1, k)
    /\ pc' = "interrupted"
    /\ UNCHANGED <<sibling, overflow_checks, w, truncated, rd, embeds>>

Truncate ==
    /\ pc = "done"
    /\ ~truncated
    /\ \E k \in 1..MaxCut : file' = SubSeq(file, 1, Len(file) - k)
    /\ truncated' = TRUE
    /\ rd' = [r \in Readers |-> NoCall]
    /\ UNCHANGED <<sibling, overflow_checks, pc, w, embeds>>

(***************************************************************************)
(* Readers: the commands of the running executable.  Each call opens the   *)
(* file anew; rd[r] records reader r's last call and its result.           *)
(***************************************************************************)
Quiet == pc \in {"idle", "done"}

\* whether res is the error of an id that is not in the manifest
IsMiss(call) == call.op = "read_embedded_media" /\ call.res.err = "media_not_found"

Call(r, op, arg, res) ==
    rd' = [rd EXCEPT ![r] = [op |-> op, arg |-> arg, res |-> res,
                             after_miss |-> op = "read_embedded_media" /\ IsMiss(rd[r])]]

\* a read that leaves the file without the trailer it has read
ReadProjectFileV2_strip(r) ==
    /\ Quiet
    /\ Call(r, "read_project_file_v2", <<>>,
            read_project_file_v2(file, sibling, overflow_checks))
    /\ file' = IF pc = "done" THEN w.before ELSE file
    /\ UNCHANGED <<sibling, overflow_checks, pc, w, truncated, embeds>>

ReadProjectFileV2(r) ==
    /\ Quiet
    /\ Call(r, "read_project_file_v2", <<>>,
            read_project_file_v2(file, sibling, overflow_checks))
    /\ UNCHANGED <<file, sibling, overflow_checks, pc, w, truncated, embeds>>

ReadProjectFile(r) ==
    /\ Quiet
    /\ Call(r, "read_project_file", <<>>,
            read_project_file(file, sibling, overflow_checks))
    /\ UNCHANGED <<file, sibling, overflow_checks, pc, w, truncated, embeds>>

ReadEmbeddedMedia(r, media_id) ==
    /\ Quiet
    /\ Call(r, "read_embedded_media", media_id,
            read_embedded_media(file, media_id, overflow_checks))
    /\ UNCHANGED <<file, sibling, overflow_checks, pc, w, truncated, embeds>>

GetMediaManifest(r) ==
    /\ Quiet
    /\ Call(r, "get_media_manifest", <<>>, get_media_manifest(file, overflow_checks))
    /\ UNCHANGED <<file, sibling, overflow_checks, pc, w, truncated, embeds>>

\* a step of one of the two writers
Write ==
    \/ \E project_json \in ProjectJsons, media_files \in MediaLists :
          StartV2(project_json, media_files)
    \/ V2Media
    \/ V2Project
    \/ V2Manifest
    \/ V2Len
    \/ V2Magic
    \/ \E data \in Payloads : StartV1(data)
    \/ V1Data
    \/ V1Len
    \/ V1Magic

\* a command called by one of the readers of R
Read(R) ==
    \/ \E r \in R : ReadProjectFileV2(r)
    \/ \E r \in R : ReadProjectFile(r)
    \/ \E r \in R, media_id \in MediaIds : ReadEmbeddedMedia(r, media_id)
    \/ \E r \in R : GetMediaManifest(r)

\* one build, which may be interrupted or lose a byte, and one reader
Next ==
    \/ Write
    \/ Interrupt
    \/ Truncate
    \/ Read({1})

Spec == Init /\ [][Next]_vars

\* one build of a plain executable that runs to its end, and two readers
\* whose calls interleave
InitReaders == Init /\ file = HostPlain

NextReaders ==
    \/ Write
    \/ Read(Readers)

SpecReaders == InitReaders /\ [][NextReaders]_vars

(***************************************************************************)
(* What the properties below speak of.                                     *)
(***************************************************************************)
\* a build of that writer has run to its end and the file is as it left it
DoneV2 == pc = "done" /\ w.fn = "v2" /\ ~truncated

DoneV1 == pc = "done" /\ w.fn = "v1" /\ ~truncated

\* the descriptors of list whose source file is on disk, in the list's order
Present(list) == SelectSeq(list, LAMBDA m : Source(m.file_path).exists)

AllPresent(list) == Present(list) = list

DistinctIds(list) ==
    \A i, j \in 1..Len(list) : i # j => list[i].id # list[j].id

\* the content of the source files of list, one after the other
Blobs(list) == Concat([i \in 1..Len(list) |-> Source(list[i].file_path).content])

\* whether f ends with the marker
EndsWith(f, magic) ==
    Len(f) >= Len(magic) /\ SubSeq(f, Len(f) - Len(magic) + 1, Len(f)) = magic

(***************************************************************************)
(* C1.  Round trip: after append_binary_data_v2 has completed on any host  *)
(* with media whose ids are pairwise distinct and whose sources all exist, *)
(* read_project_file_v2 returns the project JSON that was embedded and     *)
(* read_embedded_media(id) returns the bytes of the source file of id.     *)
(***************************************************************************)
C1_RoundTrip ==
    (DoneV2 /\ AllPresent(w.media_files) /\ DistinctIds(w.media_files)) =>
      \A r \in Readers :
        /\ rd[r].op = "read_project_file_v2" => rd[r].res = Ok(w.project_json)
        /\ \A i \in 1..Len(w.media_files) :
             (rd[r].op = "read_embedded_media" /\ rd[r].arg = w.media_files[i].id)
               => rd[r].res = Ok(Source(w.media_files[i].file_path).content)

\* the second of two blobs has been read back from a container on a host
C1_Witness ==
    /\ DoneV2 /\ AllPresent(w.media_files) /\ DistinctIds(w.media_files)
    /\ Len(w.media_files) = 2 /\ w.before # <<>>
    /\ rd[1].op = "read_embedded_media" /\ rd[1].arg = w.media_files[2].id
    /\ rd[1].res.ok /\ rd[1].res.val # <<>>

(***************************************************************************)
(* C2.  The dispatcher tries V1 and the loose file only after a V2 marker  *)
(* mismatch: when the V2 marker matches and read_manifest_from_exe fails   *)
(* (manifest length not consistent, manifest not parsed, I/O),             *)
(* read_project_file_v2 returns that error and tries no other format.      *)
(***************************************************************************)
C2_OnlyMismatchFallsBack ==
    \A r \in Readers :
      (/\ rd[r].op = "read_project_file_v2"
       /\ EndsWith(file, MAGIC_BYTES_V2)
       /\ ~read_manifest_from_exe(file, overflow_checks).ok)
        => rd[r].res = read_manifest_from_exe(file, overflow_checks)

(***************************************************************************)
(* C3.  Truncation: on a completed V2 container without its last bytes,    *)
(* read_manifest_from_exe and every asset read end in the marker mismatch; *)
(* read_project_file_v2 falls through V2 and V1 to project.json next to    *)
(* the executable and returns its content, or "no project data" when it    *)
(* is not there: no read returns bytes of the truncated container.         *)
(***************************************************************************)
C3_TruncatedV2 ==
    (truncated /\ w.fn = "v2") =>
      /\ read_manifest_from_exe(file, overflow_checks) = Err("not_v2")
      /\ \A r \in Readers :
           /\ rd[r].op \in {"read_embedded_media", "get_media_manifest"}
                => rd[r].res = Err("not_v2")
           /\ rd[r].op = "read_project_file_v2"
                => rd[r].res = IF sibling.exists THEN Ok(sibling.content)
                                                 ELSE Err("no_project_data")

\* C3 as first stated: no project read and no asset read of the truncated
\* container returns a successful result
C3_TruncatedNeverReads ==
    (truncated /\ w.fn = "v2") =>
      \A r \in Readers :
        rd[r].op \in {"read_project_file_v2", "read_embedded_media"}
          => ~rd[r].res.ok

\* the project has been asked of a truncated container that holds media
C3_Witness ==
    /\ truncated /\ w.fn = "v2" /\ w.manifest.media # <<>>
    /\ rd[1].op = "read_project_file_v2" /\ sibling.exists

(***************************************************************************)
(* C4.  Crash consistency: when append_binary_data_v2 is interrupted on a  *)
(* host that carried no trailer, the file fails the V1 footer check and    *)
(* the V2 footer check, whatever the media and the project JSON.           *)
(***************************************************************************)
C4_PartialWriteFailsBothChecks ==
    (/\ pc = "interrupted" /\ w.fn = "v2"
     /\ ~EndsWith(w.before, MAGIC_BYTES) /\ ~EndsWith(w.before, MAGIC_BYTES_V2))
      => /\ ~read_data_from_exe(file, overflow_checks).ok
         /\ ~read_manifest_from_exe(file, overflow_checks).ok

(***************************************************************************)
(* C5.  Version isolation: the two markers have the same length and        *)
(* differ; the V2 reader rejects a file the V1 writer completed with the   *)
(* marker mismatch, and the V1 reader rejects a file the V2 writer         *)
(* completed with the marker mismatch.                                     *)
(***************************************************************************)
C5_VersionIsolation ==
    /\ Len(MAGIC_BYTES) = Len(MAGIC_BYTES_V2)
    /\ MAGIC_BYTES # MAGIC_BYTES_V2
    /\ DoneV1 =>
         /\ read_manifest_from_exe(file, overflow_checks) = Err("not_v2")
         /\ \A r \in Readers :
              rd[r].op \in {"read_embedded_media", "get_media_manifest"}
                => rd[r].res = Err("not_v2")
    /\ DoneV2 => read_data_from_exe(file, overflow_checks) = Err("no_v1_data")

\* the manifest has been asked of a file the V1 writer completed
C5_Witness ==
    /\ DoneV1 /\ w.data # <<>>
    /\ rd[1].op = "get_media_manifest" /\ rd[1].res.err = "not_v2"

(***************************************************************************)
(* C6.  Strict append: a completed append_binary_data_v2 on a file of size *)
(* S leaves the first S bytes as they were and appends, in this order, the *)
(* content of the media sources that exist, the project JSON, the manifest *)
(* JSON, its length in 8 bytes and the V2 marker, and nothing else.        *)
(***************************************************************************)
C6_StrictAppend ==
    DoneV2 =>
      LET S == Len(w.before)
          B == Blobs(w.media_files)
          P == w.project_json
          M == w.manifest_json
          at_manifest == S + Len(B) + Len(P)
      IN /\ Len(file) = at_manifest + Len(M) + 8 + Len(MAGIC_BYTES_V2)
         /\ Range(file, 0, S) = w.before
         /\ Range(file, S, Len(B)) = B
         /\ Range(file, S + Len(B), Len(P)) = P
         /\ Range(file, at_manifest, Len(M)) = M
         /\ ParseManifest(M).ok
         /\ from_le_bytes(Range(file, at_manifest + Len(M), 8)) = Len(M)
         /\ EndsWith(file, MAGIC_BYTES_V2)

\* a container on a host, made of a project and of two descriptors of which
\* one has a source
C6_Witness ==
    /\ DoneV2 /\ w.before # <<>> /\ w.project_json # <<>>
    /\ Len(w.media_files) = 2 /\ Len(Present(w.media_files)) = 1
    /\ Blobs(w.media_files) # <<>>

(***************************************************************************)
(* C7.  Missing sources: append_binary_data_v2 completes when sources are  *)
(* missing; the media of the manifest is the input list without the        *)
(* descriptors whose source is missing, in the caller's order, and each    *)
(* entry's offset and size address the bytes of its own source.            *)
(***************************************************************************)
C7_MissingSources ==
    DoneV2 =>
      LET r == read_manifest_from_exe(file, overflow_checks)
          P == Present(w.media_files)
      IN /\ r.ok
         /\ Len(r.val.media) = Len(P)
         /\ \A i \in 1..Len(P) :
              LET e == r.val.media[i]
              IN /\ e.id = P[i].id
                 /\ e.name = P[i].name
                 /\ e.mime_type = P[i].mime_type
                 /\ e.size = Len(Source(P[i].file_path).content)
                 /\ e.offset + e.size <= Len(file)
                 /\ Range(file, e.offset, e.size) = Source(P[i].file_path).content

\* a container built from a missing source followed by one that has bytes
C7_Witness ==
    /\ DoneV2 /\ Len(w.media_files) = 2
    /\ ~Source(w.media_files[1].file_path).exists
    /\ Source(w.media_files[2].file_path).content # <<>>

(***************************************************************************)
(* C8.  Contiguity: in the manifest of a completed container the offsets   *)
(* are absolute; the first range starts at the size of the host; each      *)
(* entry's offset + size is the next entry's offset; the last entry's      *)
(* offset + size (the size of the host when there is none) is              *)
(* project_json_offset; project_json_offset + project_json_size is where   *)
(* the manifest JSON begins.                                               *)
(***************************************************************************)
C8_Contiguity ==
    DoneV2 =>
      LET r == read_manifest_from_exe(file, overflow_checks)
          m == r.val
          n == Len(m.media)
          footer == Len(file) - Len(MAGIC_BYTES_V2) - 8
          manifest_start == footer - from_le_bytes(Range(file, footer, 8))
      IN /\ r.ok
         /\ n > 0 => m.media[1].offset = Len(w.before)
         /\ \A i \in 1..(n - 1) :
              m.media[i].offset + m.media[i].size = m.media[i + 1].offset
         /\ m.project_json_offset =
              IF n = 0 THEN Len(w.before) ELSE m.media[n].offset + m.media[n].size
         /\ m.project_json_offset + m.project_json_size = manifest_start

\* a manifest of two entries that have bytes, on a host
C8_Witness ==
    /\ DoneV2 /\ w.before # <<>>
    /\ Len(w.manifest.media) = 2
    /\ w.manifest.media[1].size > 0 /\ w.manifest.media[2].size > 0

(***************************************************************************)
(* C9.  Unknown id: on a completed V2 container read_embedded_media of an  *)
(* id that is not in the manifest fails with "media not found", and a      *)
(* lookup of an id of the manifest made after such a failure returns the   *)
(* bytes of that id's source.                                              *)
(***************************************************************************)
\* the index in list of the first descriptor with the id, 0 when there is none
FirstWithId(list, media_id) ==
    IF \E i \in 1..Len(list) : list[i].id = media_id
    THEN CHOOSE i \in 1..Len(list) :
           /\ list[i].id = media_id
           /\ \A j \in 1..(i - 1) : list[j].id # media_id
    ELSE 0

C9_UnknownId ==
    DoneV2 =>
      \A r \in Readers :
        rd[r].op = "read_embedded_media" =>
          LET P == Present(w.media_files)
              i == FirstWithId(P, rd[r].arg)
          IN /\ i = 0 => rd[r].res = Err("media_not_found")
             /\ (i > 0 /\ rd[r].after_miss)
                  => rd[r].res = Ok(Source(P[i].file_path).content)

\* bytes have been read by the reader whose call before was an unknown id
C9_Witness ==
    /\ DoneV2
    /\ rd[1].op = "read_embedded_media" /\ rd[1].after_miss
    /\ rd[1].res.ok /\ rd[1].res.val # <<>>

(***************************************************************************)
(* C10.  Reads do not write: a call of a reader, failed or not, and        *)
(* whichever reader makes it, leaves the file and project.json as they     *)
(* are, and a reader that repeats its call gets the result it got before,  *)
(* whatever the other reader called in between.                            *)
(***************************************************************************)
\* the step is a call of reader r
CallBy(r) == rd'[r] # rd[r] /\ rd'[r].op # "none"

C10_ReadsDoNotWrite ==
    [][\A r \in Readers :
         CallBy(r) =>
           /\ file' = file
           /\ sibling' = sibling
           /\ (rd'[r].op = rd[r].op /\ rd'[r].arg = rd[r].arg)
                => rd'[r].res = rd[r].res]_vars

\* on a completed container one reader has the project and the other has
\* failed to find an id
C10_Witness ==
    /\ DoneV2
    /\ rd[1].op = "read_project_file_v2" /\ rd[1].res.ok
    /\ rd[2].op = "read_embedded_media" /\ ~rd[2].res.ok

(***************************************************************************)
(* C11.  Dispatcher outcomes: read_project_file_v2 returns the project     *)
(* JSON of the V2 trailer when the V2 writer completed the file, the       *)
(* payload of the V1 trailer when the V1 writer completed it (whether or   *)
(* not project.json exists next to it, and never an error about a missing  *)
(* V2 footer), the content of project.json when the file carries no        *)
(* trailer and project.json exists, and the one "no project data" error    *)
(* when there is no trailer and no project.json.                           *)
(***************************************************************************)
\* the file is a host as it was before any build, without a trailer
NoTrailer ==
    pc = "idle" /\ ~EndsWith(file, MAGIC_BYTES) /\ ~EndsWith(file, MAGIC_BYTES_V2)

C11_DispatcherOutcomes ==
    \A r \in Readers :
      rd[r].op = "read_project_file_v2" =>
        /\ DoneV2 => rd[r].res = Decode(Ok(w.project_json))
        /\ DoneV1 => rd[r].res = Decode(Ok(w.data))
        /\ (NoTrailer /\ sibling.exists) => rd[r].res = Ok(sibling.content)
        /\ (NoTrailer /\ ~sibling.exists) => rd[r].res = Err("no_project_data")

\* the payload of a V1 trailer has been returned although project.json
\* exists next to the executable
C11_Witness ==
    /\ DoneV1 /\ sibling.exists /\ w.data # <<>>
    /\ rd[1].op = "read_project_file_v2" /\ rd[1].res = Ok(w.data)

(***************************************************************************)
(* Files with a made-up footer: some bytes, eight bytes of length and a    *)
(* marker, read by both build profiles.  The lengths run from 0 to past    *)
(* the file size and over the values where `as i64`, the subtractions and  *)
(* `vec![0u8; n]` change their outcome.  A seek to a position of at most   *)
(* i64::MAX succeeds, as it does where the file system sets no lower       *)
(* limit, and usize is 64 bits wide.                                       *)
(***************************************************************************)
\* the largest of the small lengths of a made-up footer
MaxLength == 3

\* the bytes before a V1 footer: none, the text {}
FooterPayloads == {<<>>, <<123, 125>>}

\* the bytes before a V2 footer: the same, and a manifest
FooterPrefixes == FooterPayloads \cup {SerManifest(EmptyManifest)}

\* the length fields for the prefix: small ones, the length of the prefix
\* and one more, 2^31, 2^63 - 29, 2^63 - 28, 2^63 - 1, 2^63, 2^63 + the
\* length of the prefix and one more, 2^64 - 1
FooterLengths(prefix) ==
    { to_le_bytes(n) : n \in (0..MaxLength) \cup {Len(prefix), Len(prefix) + 1} }
    \cup { <<0, 0, 0, 128, 0, 0, 0, 0>>,
           <<227, 255, 255, 255, 255, 255, 255, 127>>,
           <<228, 255, 255, 255, 255, 255, 255, 127>>,
           <<255, 255, 255, 255, 255, 255, 255, 127>>,
           <<0, 0, 0, 0, 0, 0, 0, 128>>,
           [to_le_bytes(Len(prefix)) EXCEPT ![8] = 128],
           [to_le_bytes(Len(prefix) + 1) EXCEPT ![8] = 128],
           <<255, 255, 255, 255, 255, 255, 255, 255>> }

\* the files: every prefix under every length and marker; the empty file,
\* "MZ" 0x90, a marker without its first byte and a marker alone
FooterFiles ==
    {<<>>, HostPlain}
    \cup UNION { { prefix \o len_buf \o MAGIC_BYTES :
                     len_buf \in FooterLengths(prefix) }
                 : prefix \in FooterPayloads }
    \cup UNION { { prefix \o len_buf \o MAGIC_BYTES_V2 :
                     len_buf \in FooterLengths(prefix) }
                 : prefix \in FooterPrefixes }
    \cup { Tail(magic) : magic \in {MAGIC_BYTES, MAGIC_BYTES_V2} }
    \cup {MAGIC_BYTES, MAGIC_BYTES_V2}

InitFooters ==
    /\ file \in FooterFiles
    /\ sibling \in {NoFile, FileOf(SiblingJson)}
    /\ overflow_checks \in BOOLEAN
    /\ pc = "idle"
    /\ w = NoWriter
    /\ truncated = FALSE
    /\ rd = [r \in Readers |-> NoCall]
    /\ embeds = 0

NextFooters == Read({1})

SpecFooters == InitFooters /\ [][NextFooters]_vars

\* the eight bytes before the marker of a file that ends in magic and has
\* them, and the bytes of the file before those
LenBuf(f, magic) == Range(f, Len(f) - Len(magic) - 8, 8)

Room(f, magic) == Len(f) - Len(magic) - 8

HasFooter(f, magic) == EndsWith(f, magic) /\ Room(f, magic) >= 0

\* whether the length of the footer is more than the bytes before it
TooLong(f, magic) ==
    \/ from_le_bytes(LenBuf(f, magic)) > Room(f, magic)
    \/ LenBuf(f, magic)[8] >= 128

(***************************************************************************)
(* C12.  On a file that ends with the V1 marker over a length L with       *)
(* L + 8 + marker_len > file_size, read_data_from_exe returns an error:    *)
(* it returns no data and does not abort, and neither does the command     *)
(* read_project_file built on it.                                          *)
(***************************************************************************)
C12_V1RejectsBadLength ==
    (HasFooter(file, MAGIC_BYTES) /\ TooLong(file, MAGIC_BYTES)) =>
      /\ ~read_data_from_exe(file, overflow_checks).ok
      /\ ~IsPanic(read_data_from_exe(file, overflow_checks))
      /\ \A r \in Readers :
           rd[r].op = "read_project_file" => ~IsPanic(rd[r].res)

(***************************************************************************)
(* C13.  read_manifest_from_exe fails with the marker mismatch exactly     *)
(* when the file has the bytes of a marker at its end and they are not the *)
(* V2 marker; when the V2 marker is there over a length that is more than  *)
(* the bytes before it, or over bytes that are no manifest, it returns an  *)
(* error of the seek, the read or the parse, and no manifest; the commands *)
(* built on it do not abort either.                                        *)
(***************************************************************************)
\* the bytes the length of the footer selects, when it is not too long
FooterBytes(f, magic) ==
    Range(f, Room(f, magic) - from_le_bytes(LenBuf(f, magic)),
          from_le_bytes(LenBuf(f, magic)))

C13_ManifestErrorKinds ==
    /\ read_manifest_from_exe(file, overflow_checks) = Err("not_v2")
         <=> (Len(file) >= Len(MAGIC_BYTES_V2) /\ ~EndsWith(file, MAGIC_BYTES_V2))
    /\ (/\ HasFooter(file, MAGIC_BYTES_V2)
        /\ \/ TooLong(file, MAGIC_BYTES_V2)
           \/ ~ParseManifest(FooterBytes(file, MAGIC_BYTES_V2)).ok)
         => /\ ~read_manifest_from_exe(file, overflow_checks).ok
            /\ read_manifest_from_exe(file, overflow_checks).err
                  \in {"seek", "parse_manifest"}
            /\ \A r \in Readers :
                 rd[r].op \in {"get_media_manifest", "read_embedded_media",
                               "read_project_file_v2"}
                   => ~IsPanic(rd[r].res)

(***************************************************************************)
(* C14.  V1 write and round trip: a completed append_data_to_exe with      *)
(* payload P on a file of size S leaves the first S bytes as they were and *)
(* appends P, len(P) in 8 little-endian bytes and the V1 marker, and       *)
(* nothing else; read_data_from_exe then returns P, the empty P included,  *)
(* and read_project_file returns P as text.                                *)
(***************************************************************************)
C14_V1RoundTrip ==
    DoneV1 =>
      /\ Len(file) = Len(w.before) + Len(w.data) + 8 + Len(MAGIC_BYTES)
      /\ file = w.before \o w.data \o to_le_bytes(Len(w.data)) \o MAGIC_BYTES
      /\ read_data_from_exe(file, overflow_checks) = Ok(w.data)
      /\ \A r \in Readers :
           rd[r].op = "read_project_file" => rd[r].res = Decode(Ok(w.data))

\* the empty payload has been read back from a host that has bytes
C14_Witness ==
    /\ DoneV1 /\ w.data = <<>> /\ w.before # <<>>
    /\ rd[1].op = "read_project_file" /\ rd[1].res = Ok(<<>>)

(***************************************************************************)
(* C15.  Duplicate ids: on a completed container read_embedded_media(id)   *)
(* returns the bytes of the first descriptor, in the caller's order, that  *)
(* carries the id and whose source existed, whatever descriptors with the  *)
(* same id follow it.                                                      *)
(***************************************************************************)
C15_FirstMatchWins ==
    DoneV2 =>
      \A r \in Readers :
        (/\ rd[r].op = "read_embedded_media"
         /\ FirstWithId(Present(w.media_files), rd[r].arg) > 0)
          => rd[r].res =
               Ok(Source(Present(w.media_files)
                           [FirstWithId(Present(w.media_files), rd[r].arg)]
                         .file_path).content)

\* an id has been read that two entries of the manifest carry, the first
\* over other bytes than the second
C15_Witness ==
    /\ DoneV2 /\ Len(w.manifest.media) = 2
    /\ w.manifest.media[1].id = w.manifest.media[2].id
    /\ w.manifest.media[1].size # w.manifest.media[2].size
    /\ rd[1].op = "read_embedded_media" /\ rd[1].arg = w.manifest.media[1].id
    /\ rd[1].res.ok /\ Len(rd[1].res.val) = w.manifest.media[1].size

(***************************************************************************)
(* Embeds one after the other on the same file: a writer that has          *)
(* completed is called again, and the file it left is the host of the      *)
(* next embed.                                                             *)
(***************************************************************************)
\* the most embeds on one file
MaxEmbeds == 2

\* the media lists of these embeds: at most one descriptor
SeqMediaLists == {s \in MediaLists : Len(s) <= 1}

\* the writer has returned Ok(()) and the file is embedded into again
Again ==
    /\ pc = "done"
    /\ ~truncated
    /\ embeds + 1 < MaxEmbeds
    /\ pc' = "idle"
    /\ w' = NoWriter
    /\ embeds' = embeds + 1
    /\ rd' = [r \in Readers |-> NoCall]
    /\ UNCHANGED <<file, sibling, overflow_checks, truncated>>

WriteSeq ==
    \/ \E project_json \in ProjectJsons, media_files \in SeqMediaLists :
          StartV2(project_json, media_files)
    \/ V2Media
    \/ V2Project
    \/ V2Manifest
    \/ V2Len
    \/ V2Magic
    \/ \E data \in Payloads : StartV1(data)
    \/ V1Data
    \/ V1Len
    \/ V1Magic

InitSeq == Init /\ file = HostPlain

NextSeq ==
    \/ WriteSeq
    \/ Again
    \/ Read({1})

SpecSeq == InitSeq /\ [][NextSeq]_vars

(***************************************************************************)
(* C16.  Last trailer wins: after embeds completed one after the other on  *)
(* the same file, V1 or V2 in any order, the bytes the earlier embeds left *)
(* are at the start of the file as they were; read_project_file_v2 returns *)
(* the project JSON of the last embed when it is V2 and its payload when   *)
(* it is V1; and when it is V2 every offset of its manifest is at or after *)
(* the size the file had before that embed and addresses the bytes that    *)
(* embed wrote.                                                            *)
(***************************************************************************)
C16_LastTrailerWins ==
    /\ (pc = "done" /\ ~truncated) =>
         /\ Range(file, 0, Len(w.before)) = w.before
         /\ \A r \in Readers :
              rd[r].op = "read_project_file_v2" =>
                rd[r].res = Decode(Ok(IF w.fn = "v2" THEN w.project_json
                                                     ELSE w.data))
    /\ DoneV2 =>
         LET r == read_manifest_from_exe(file, overflow_checks)
             P == Present(w.media_files)
         IN /\ r.ok
            /\ r.val.project_json_offset >= Len(w.before)
            /\ Range(file, r.val.project_json_offset, r.val.project_json_size)
                 = w.project_json
            /\ Len(r.val.media) = Len(P)
            /\ \A i \in 1..Len(P) :
                 /\ r.val.media[i].offset >= Len(w.before)
                 /\ Range(file, r.val.media[i].offset, r.val.media[i].size)
                      = Source(P[i].file_path).content

\* the project of a V2 embed with media has been read from a file whose
\* host ends in the trailer of an earlier V1 embed
C16_Witness ==
    /\ DoneV2 /\ embeds > 0 /\ EndsWith(w.before, MAGIC_BYTES)
    /\ w.manifest.media # <<>> /\ w.manifest.media[1].size > 0
    /\ rd[1].op = "read_project_file_v2" /\ rd[1].res = Ok(w.project_json)

=============================================================================
